---- MODULE Spec2Model ----
(***************************************************************************)
(* Model of the PDF form generator: src/index.js (version 2.3.0) and, where *)
(* named, the other versions kept beside it.                                *)
(*                                                                         *)
(* Representation.                                                         *)
(*   - A JavaScript string is a sequence of one-character strings; the     *)
(*     two box glyphs U+2610 and U+25A1 are the characters "U2610" and     *)
(*     "U25A1".  Offsets into a text are 0-based as in the source, so      *)
(*     text[i] of the source is CharAt(text, i).                           *)
(*   - Coordinates of the input (Bounds) are whole units.  Everything the  *)
(*     positioner computes is kept exact in ticks, Scale ticks per unit,   *)
(*     so that fontSize * 0.55 * 0.3 is an integer.  Inputs are integers;   *)
(*     the rounding of IEEE doubles is not modelled.                       *)
(***************************************************************************)
EXTENDS Integers, Sequences, FiniteSets, TLC

VARIABLES
  h,      \* the /process handler: one record of local state per request
  fin,    \* argument of the function under test (function specifications)
  fout,   \* its result
  fpc     \* "call" before the function under test ran, "ret" after

vars == <<h, fin, fout, fpc>>

-----------------------------------------------------------------------------
(* Bounds of the model *)

MaxTextLen == 5
MaxElems == 3
MaxReqElems == 2
MaxPages == 2
MaxWords == 2
NameIndexBound == 12

-----------------------------------------------------------------------------
(* JavaScript string primitives *)

Min(a, b) == IF a < b THEN a ELSE b
Max(a, b) == IF a > b THEN a ELSE b
Abs(a) == IF a < 0 THEN -a ELSE a

\* text[i], 0-based; "" stands for undefined (an index outside the text)
CharAt(text, i) == IF i >= 0 /\ i < Len(text) THEN text[i + 1] ELSE ""

\* String.prototype.substring(start, end): arguments clamped to [0, length]
\* and swapped when start > end
Substring(text, start, end) ==
  LET a == Max(0, Min(start, Len(text)))
      b == Max(0, Min(end, Len(text)))
  IN SubSeq(text, Min(a, b) + 1, Max(a, b))

\* String.prototype.includes(sub)
Includes(text, sub) ==
  \E i \in 0..(Len(text) - Len(sub)) : SubSeq(text, i + 1, i + Len(sub)) = sub

StartsWith(text, sub) == Len(sub) <= Len(text) /\ SubSeq(text, 1, Len(sub)) = sub
EndsWith(text, sub) ==
  Len(sub) <= Len(text) /\ SubSeq(text, Len(text) - Len(sub) + 1, Len(text)) = sub

LowerLetters ==
  {"a","b","c","d","e","f","g","h","i","j","k","l","m",
   "n","o","p","q","r","s","t","u","v","w","x","y","z"}
UpperLetters ==
  {"A","B","C","D","E","F","G","H","I","J","K","L","M",
   "N","O","P","Q","R","S","T","U","V","W","X","Y","Z"}
Digits == {"0","1","2","3","4","5","6","7","8","9"}

\* the regular expression /[a-zA-Z0-9]/ on one character
IsAlnum(c) == c \in LowerLetters \cup UpperLetters \cup Digits

\* the regular expression \s on one character
IsSpace(c) == c = " "

LowerOf ==
  [c \in UpperLetters |->
     CASE c = "A" -> "a" [] c = "B" -> "b" [] c = "C" -> "c" [] c = "D" -> "d"
       [] c = "E" -> "e" [] c = "F" -> "f" [] c = "G" -> "g" [] c = "H" -> "h"
       [] c = "I" -> "i" [] c = "J" -> "j" [] c = "K" -> "k" [] c = "L" -> "l"
       [] c = "M" -> "m" [] c = "N" -> "n" [] c = "O" -> "o" [] c = "P" -> "p"
       [] c = "Q" -> "q" [] c = "R" -> "r" [] c = "S" -> "s" [] c = "T" -> "t"
       [] c = "U" -> "u" [] c = "V" -> "v" [] c = "W" -> "w" [] c = "X" -> "x"
       [] c = "Y" -> "y" [] OTHER -> "z"]

\* String.prototype.toLowerCase()
ToLowerCase(text) ==
  [i \in 1..Len(text) |-> IF text[i] \in UpperLetters THEN LowerOf[text[i]] ELSE text[i]]

RECURSIVE TrimStart(_)
TrimStart(text) ==
  IF text # <<>> /\ IsSpace(Head(text)) THEN TrimStart(Tail(text)) ELSE text

RECURSIVE TrimEnd(_)
TrimEnd(text) ==
  IF text # <<>> /\ IsSpace(text[Len(text)])
  THEN TrimEnd(SubSeq(text, 1, Len(text) - 1))
  ELSE text

\* String.prototype.trim()
Trim(text) == TrimEnd(TrimStart(text))

\* all texts of at most n characters over an alphabet
TextsUpTo(alphabet, n) == UNION {[1..k -> alphabet] : k \in 0..n}

-----------------------------------------------------------------------------
(* findUnderscoreSegments, src/index.js *)

SegInit == [segments |-> <<>>, inUnderscore |-> FALSE, startIndex |-> 0,
            underscoreCount |-> 0]

\* the isBreak test on the character that follows underscores
IsBreak(text, i) ==
  LET nextChar == CharAt(text, i)
      nextNextChar == IF i + 1 < Len(text) THEN CharAt(text, i + 1) ELSE ""
  IN \/ IsAlnum(nextChar)
     \/ (nextChar = " " /\ nextNextChar = " ")
     \/ (nextChar = "," /\ nextNextChar # "_")

\* text[i] is an underscore: open a run or count one more
SegUnderscore(st, i) ==
  IF ~st.inUnderscore
  THEN [st EXCEPT !.inUnderscore = TRUE, !.startIndex = i, !.underscoreCount = 1]
  ELSE [st EXCEPT !.underscoreCount = st.underscoreCount + 1]

\* the segment pushed when the text ends inside a run
SegFinalOffByOne(st, text) ==
  [startIndex |-> st.startIndex, endIndex |-> Len(text),
   length |-> st.underscoreCount]

SegFinal(st, text) ==
  [startIndex |-> st.startIndex, endIndex |-> Len(text) - 1,
   length |-> st.underscoreCount]

\* the segment pushed when the character at i breaks the run
SegBreakSpan(st, i) ==
  [startIndex |-> st.startIndex, endIndex |-> i - 1, length |-> i - st.startIndex]

SegBreak(st, i) ==
  [startIndex |-> st.startIndex, endIndex |-> i - 1, length |-> st.underscoreCount]

\* one iteration of the scan
SegStep(text, minLength, st, i) ==
  IF CharAt(text, i) = "_" THEN SegUnderscore(st, i)
  ELSE IF st.inUnderscore THEN
    IF IsBreak(text, i) /\ st.underscoreCount >= minLength
    THEN [st EXCEPT !.segments = Append(st.segments, SegBreak(st, i)),
                    !.inUnderscore = FALSE, !.underscoreCount = 0]
    ELSE IF ~IsBreak(text, i) THEN st
    ELSE [st EXCEPT !.inUnderscore = FALSE, !.underscoreCount = 0]
  ELSE st

RECURSIVE SegLoop(_, _, _, _)
SegLoop(text, minLength, st, i) ==
  IF i < Len(text)
  THEN SegLoop(text, minLength, SegStep(text, minLength, st, i), i + 1)
  ELSE st

findUnderscoreSegments(text, minLength) ==
  LET st == SegLoop(text, minLength, SegInit, 0)
  IN IF st.inUnderscore /\ st.underscoreCount >= minLength
     THEN Append(st.segments, SegFinal(st, text))
     ELSE st.segments

-----------------------------------------------------------------------------
(* mergeMultilineElements, src/index.js and src/unnamed/part_000 (2.3.1)    *)
(*                                                                         *)
(* An element is [Text, TextType, Bounds, Page, Font, TextSize]; TextType   *)
(* is the typeof of its Text property ("string", "undefined", "number"),    *)
(* and Text is <<>> when it is no string.  Bounds is <<x0, y0, x1, y1>>,    *)
(* so Bounds[k] of the source is Bounds[k + 1] here.                        *)
(* The accumulator currentMerge is a sequence of length 0 (null) or 1.      *)
(* Its field src lists the indices of the input elements merged into it     *)
(* and its field boundsRef names the input element whose Bounds array it    *)
(* shares (0: an array of its own); neither is a property in the source.    *)

\* !element.Text || typeof element.Text !== 'string'
NoText(element) == element.Text = <<>> \/ element.TextType # "string"

hasUnderscore(element) == Includes(element.Text, <<"_">>)

\* the character class of the two box glyphs, [ ] ( and ), tested on element.Text
hasCheckbox(element) ==
  \E k \in 1..Len(element.Text) :
    element.Text[k] \in {"U2610", "U25A1", "[", "]", "(", ")"}

\* element.Page === currentMerge.Page
SamePageDropped(cur, element) == TRUE

SamePage(cur, element) == element.Page = cur.Page

\* thresholds that allow no overlap
CanMergeNoOverlap(prevBounds, currBounds) ==
  LET yDiff == Abs(currBounds[2] - prevBounds[2])
      xGap == currBounds[1] - prevBounds[3]
  IN yDiff < 30 /\ xGap >= 0 /\ xGap < 150

CanMerge(prevBounds, currBounds) ==
  LET yDiff == Abs(currBounds[2] - prevBounds[2])
      xGap == currBounds[1] - prevBounds[3]
  IN yDiff < 30 /\ xGap >= -10 /\ xGap < 150

CanMerge_v231(prevBounds, currBounds) ==
  LET yDiff == Abs(currBounds[2] - prevBounds[2])
      xGap == currBounds[1] - prevBounds[3]
  IN yDiff < 40 /\ xGap >= -20 /\ xGap < 200

\* the three assignments to currentMerge.Bounds[2], [3] and [1]
GrowBounds(prevBounds, currBounds) ==
  <<prevBounds[1],
    Min(prevBounds[2], currBounds[2]),
    Max(prevBounds[3], currBounds[3]),
    Max(prevBounds[4], currBounds[4])>>

\* version 2.3.1 also assigns currentMerge.Bounds[0]
GrowBounds_v231(prevBounds, currBounds) ==
  <<Min(prevBounds[1], currBounds[1]),
    Min(prevBounds[2], currBounds[2]),
    Max(prevBounds[3], currBounds[3]),
    Max(prevBounds[4], currBounds[4])>>

\* currentMerge.Text += (needSpace ? ' ' : '') + element.Text
AppendText(curText, elemText) ==
  LET needSpace == ~EndsWith(curText, <<" ">>) /\ ~StartsWith(elemText, <<" ">>)
  IN curText \o (IF needSpace THEN <<" ">> ELSE <<>>) \o elemText

\* an accumulator that takes the element's Bounds array itself, not a copy
NewMergeSharesBounds(element, i) ==
  [Text |-> element.Text, Bounds |-> element.Bounds, Page |-> element.Page,
   Font |-> element.Font, TextSize |-> element.TextSize,
   src |-> <<i>>, boundsRef |-> i]

\* currentMerge = { Text, Bounds: [...element.Bounds], Page, Font, TextSize }
NewMerge(element, i) ==
  [Text |-> element.Text, Bounds |-> element.Bounds, Page |-> element.Page,
   Font |-> element.Font, TextSize |-> element.TextSize,
   src |-> <<i>>, boundsRef |-> 0]

\* a flush that forgets the push
MergeFlushDrops(st) == [st EXCEPT !.currentMerge = <<>>]

\* if (currentMerge) { merged.push(currentMerge); currentMerge = null; }
MergeFlush(st) ==
  [st EXCEPT !.merged = st.merged \o st.currentMerge, !.currentMerge = <<>>]

\* a write to currentMerge.Bounds reaches every object sharing that array
WriteBounds(st, bounds) ==
  LET ref == st.currentMerge[1].boundsRef
  IN [st EXCEPT !.currentMerge[1].Bounds = bounds,
                !.elements = IF ref = 0 THEN st.elements
                             ELSE [st.elements EXCEPT ![ref].Bounds = bounds]]

\* an iteration that skips a text without indicator but leaves the
\* accumulator open
MergeStepSkipOnly(ver, st, i) ==
  LET element == st.elements[i] IN
  IF NoText(element) THEN MergeFlush(st)
  ELSE IF ~hasUnderscore(element) /\ ~hasCheckbox(element) THEN st
  ELSE IF /\ st.currentMerge # <<>>
          /\ SamePage(st.currentMerge[1], element)
          /\ IF ver = "v231"
             THEN CanMerge_v231(st.currentMerge[1].Bounds, element.Bounds)
             ELSE CanMerge(st.currentMerge[1].Bounds, element.Bounds)
  THEN LET cur == st.currentMerge[1]
           st1 == [st EXCEPT !.currentMerge[1].Text = AppendText(cur.Text, element.Text),
                             !.currentMerge[1].src = Append(cur.src, i)]
       IN WriteBounds(st1, IF ver = "v231"
                           THEN GrowBounds_v231(cur.Bounds, element.Bounds)
                           ELSE GrowBounds(cur.Bounds, element.Bounds))
  ELSE [st EXCEPT !.merged = st.merged \o st.currentMerge,
                  !.currentMerge = <<NewMerge(element, i)>>]

\* one iteration of the loop over elements (1-based i here); ver selects
\* the thresholds and bounds update of version "v230" (src/index.js) or "v231"
MergeStep(ver, st, i) ==
  LET element == st.elements[i] IN
  IF NoText(element) THEN MergeFlush(st)
  ELSE IF ~hasUnderscore(element) /\ ~hasCheckbox(element) THEN MergeFlush(st)
  ELSE IF /\ st.currentMerge # <<>>
          /\ SamePage(st.currentMerge[1], element)
          /\ IF ver = "v231"
             THEN CanMerge_v231(st.currentMerge[1].Bounds, element.Bounds)
             ELSE CanMerge(st.currentMerge[1].Bounds, element.Bounds)
  THEN LET cur == st.currentMerge[1]
           st1 == [st EXCEPT !.currentMerge[1].Text = AppendText(cur.Text, element.Text),
                             !.currentMerge[1].src = Append(cur.src, i)]
       IN WriteBounds(st1, IF ver = "v231"
                           THEN GrowBounds_v231(cur.Bounds, element.Bounds)
                           ELSE GrowBounds(cur.Bounds, element.Bounds))
  ELSE [st EXCEPT !.merged = st.merged \o st.currentMerge,
                  !.currentMerge = <<NewMerge(element, i)>>]

RECURSIVE MergeLoop(_, _, _)
MergeLoop(ver, st, i) ==
  IF i <= Len(st.elements)
  THEN MergeLoop(ver, MergeStep(ver, st, i), i + 1)
  ELSE MergeFlush(st)

MergeInit(elements) == [merged |-> <<>>, currentMerge |-> <<>>, elements |-> elements]

\* the state after the call: .merged is the returned list, .elements the
\* caller's list as the call left it
mergeMultilineElementsRun(elements) == MergeLoop("v230", MergeInit(elements), 1)

mergeMultilineElements(elements) == mergeMultilineElementsRun(elements).merged

mergeMultilineElements_v231(elements) ==
  MergeLoop("v231", MergeInit(elements), 1).merged

-----------------------------------------------------------------------------
(* getFontWidthFactor, getCharWidth, calculateCharacterPositions            *)
(*                                                                         *)
(* A width factor is kept in hundredths (0.55 is 55).  A font size is an    *)
(* integer number of units.  A position is in ticks.                        *)

Scale == 100 * 100

\* the factors object, in the order of its keys
FontFactors ==
  <<[key |-> <<"H", "e", "l", "v", "e", "t", "i", "c", "a">>, factor |-> 55],
    [key |-> <<"H", "e", "l", "v", "e", "t", "i", "c", "a", "-", "B", "o", "l", "d">>, factor |-> 58],
    [key |-> <<"T", "i", "m", "e", "s">>, factor |-> 48],
    [key |-> <<"T", "i", "m", "e", "s", "-", "R", "o", "m", "a", "n">>, factor |-> 48],
    [key |-> <<"T", "i", "m", "e", "s", "-", "B", "o", "l", "d">>, factor |-> 52],
    [key |-> <<"C", "o", "u", "r", "i", "e", "r">>, factor |-> 60],
    [key |-> <<"C", "o", "u", "r", "i", "e", "r", "-", "B", "o", "l", "d">>, factor |-> 60],
    [key |-> <<"A", "r", "i", "a", "l">>, factor |-> 55],
    [key |-> <<"A", "r", "i", "a", "l", "-", "B", "o", "l", "d">>, factor |-> 58],
    [key |-> <<"A", "r", "i", "a", "l", ",", "B", "o", "l", "d">>, factor |-> 58]>>

\* the first key of factors that fontName includes, else 0.55
getFontWidthFactor(fontName) ==
  IF fontName # <<>> /\ \E k \in 1..Len(FontFactors) : Includes(fontName, FontFactors[k].key)
  THEN FontFactors[CHOOSE k \in 1..Len(FontFactors) :
                     /\ Includes(fontName, FontFactors[k].key)
                     /\ \A j \in 1..(k - 1) : ~Includes(fontName, FontFactors[j].key)].factor
  ELSE 55

\* fontSize * factor, in ticks
getCharWidth(fontName, fontSize) == fontSize * getFontWidthFactor(fontName) * 100

\* the advance of one character, in ticks
CharAdvance(char, baseCharWidth, fontSize) ==
  IF char = " " THEN (baseCharWidth * 30) \div 100
  ELSE IF char \in {"(", ")", "[", "]"} THEN (baseCharWidth * 40) \div 100
  ELSE IF char \in {"U2610", "U25A1"} THEN fontSize * 90 * 100
  ELSE IF char = "." THEN (baseCharWidth * 25) \div 100
  ELSE IF char = "," THEN (baseCharWidth * 30) \div 100
  ELSE baseCharWidth

RECURSIVE PositionsLoop(_, _, _, _, _, _)
PositionsLoop(text, baseCharWidth, fontSize, positions, currentX, i) ==
  IF i < Len(text)
  THEN PositionsLoop(text, baseCharWidth, fontSize, Append(positions, currentX),
                     currentX + CharAdvance(CharAt(text, i), baseCharWidth, fontSize),
                     i + 1)
  ELSE positions

\* startX is in ticks; positions[i] of the source is the result's [i + 1]
calculateCharacterPositions(text, startX, fontName, fontSize) ==
  PositionsLoop(text, getCharWidth(fontName, fontSize), fontSize, <<>>, startX, 0)

-----------------------------------------------------------------------------
(* detectCheckboxes *)

\* matchAll of a one-character pattern
RECURSIVE MatchGlyph(_, _, _, _)
MatchGlyph(text, glyph, type, i) ==
  IF i >= Len(text) THEN <<>>
  ELSE IF CharAt(text, i) = glyph
       THEN <<[type |-> type, index |-> i, symbol |-> <<glyph>>, length |-> 1]>>
            \o MatchGlyph(text, glyph, type, i + 1)
       ELSE MatchGlyph(text, glyph, type, i + 1)

\* the offset of the first character at or after i that is not whitespace
RECURSIVE SkipSpaces(_, _)
SkipSpaces(text, i) ==
  IF i < Len(text) /\ IsSpace(CharAt(text, i)) THEN SkipSpaces(text, i + 1) ELSE i

\* matchAll of open \s* close: matches do not overlap, the scan resumes
\* after a match
RECURSIVE MatchPair(_, _, _, _, _)
MatchPair(text, open, close, type, i) ==
  IF i >= Len(text) THEN <<>>
  ELSE IF CharAt(text, i) = open /\ CharAt(text, SkipSpaces(text, i + 1)) = close
       THEN LET j == SkipSpaces(text, i + 1) IN
            <<[type |-> type, index |-> i, symbol |-> SubSeq(text, i + 1, j + 1),
               length |-> j - i + 1]>>
            \o MatchPair(text, open, close, type, j + 1)
       ELSE MatchPair(text, open, close, type, i + 1)

\* insertion of x into a list sorted by index, after its equals (stable)
RECURSIVE InsertByIndex(_, _)
InsertByIndex(sorted, x) ==
  IF sorted = <<>> THEN <<x>>
  ELSE IF sorted[Len(sorted)].index <= x.index THEN Append(sorted, x)
  ELSE Append(InsertByIndex(SubSeq(sorted, 1, Len(sorted) - 1), x), sorted[Len(sorted)])

\* checkboxes.sort((a, b) => a.index - b.index)
RECURSIVE SortByIndex(_)
SortByIndex(list) ==
  IF list = <<>> THEN <<>>
  ELSE InsertByIndex(SortByIndex(SubSeq(list, 1, Len(list) - 1)), list[Len(list)])

detectCheckboxes(text) ==
  SortByIndex(MatchGlyph(text, "U2610", "checkbox", 0)
              \o MatchGlyph(text, "U25A1", "checkbox", 0)
              \o MatchPair(text, "[", "]", "checkbox", 0)
              \o MatchPair(text, "(", ")", "radio", 0))

-----------------------------------------------------------------------------
(* getContext, guessFieldType, generateFieldName *)

ContextWindow == 100

getContext(text, startIndex, endIndex) ==
  LET beforeStart == Max(0, startIndex - ContextWindow)
      afterEnd == Min(Len(text), endIndex + ContextWindow)
      before == Trim(Substring(text, beforeStart, startIndex))
      after == Trim(Substring(text, endIndex + 1, afterEnd))
  IN [before |-> before, after |-> after,
      full |-> before \o <<" ", "_", "_", "_", "_", "_", " ">> \o after]

\* (beforeLower + ' ' + afterLower + ' ' + text).toLowerCase()
Combined(context, text) ==
  ToLowerCase(ToLowerCase(context.before) \o <<" ">> \o ToLowerCase(context.after)
              \o <<" ">> \o text)

IsSignature(combined) ==
  \/ Includes(combined, <<"(", "s", "i", "g", "n", ")">>)
  \/ Includes(combined, <<"s", "i", "g", "n", "a", "t", "u", "r", "e", ":">>)
  \/ Includes(combined, <<"s", "i", "g", "n", "e", "d", " ", "b", "y">>)
  \/ Includes(combined, <<"s", "i", "g", "n", ":">>)
  \/ Includes(combined, <<"b", "y", " ", "(", "s", "i", "g", "n", ")">>)
  \/ Includes(combined, <<"s", "i", "g", "n", "a", "t", "u", "r", "e">>)

IsCurrency(combined) ==
  \/ Includes(combined, <<"$">>)
  \/ Includes(combined, <<"a", "m", "o", "u", "n", "t", " ", "o", "f">>)
  \/ Includes(combined, <<"s", "u", "m", " ", "o", "f">>)
  \/ Includes(combined, <<"p", "r", "i", "c", "e">>)
  \/ Includes(combined, <<"e", "a", "r", "n", "e", "s", "t", " ", "m", "o", "n", "e", "y">>)
  \/ Includes(combined, <<"d", "e", "p", "o", "s", "i", "t">>)

IsDate(combined) ==
  \/ Includes(combined, <<"d", "a", "t", "e">>)
  \/ Includes(combined, <<"d", "a", "y">>)
  \/ Includes(combined, <<"m", "o", "n", "t", "h">>)
  \/ Includes(combined, <<"y", "e", "a", "r">>)
  \/ Includes(combined, <<"t", "h", "i", "s", " ", "_", "_", "_", "_", "_", " ", "d", "a", "y">>)
  \/ Includes(combined, <<"m", "a", "d", "e", " ", "t", "h", "i", "s", " ", "d", "a", "y">>)

\* the chain of tests on combined, first match wins
ClassifyCurrencyFirst(combined) ==
  IF IsCurrency(combined) THEN "currency"
  ELSE IF IsSignature(combined) THEN "signature"
  ELSE IF IsDate(combined) THEN "date"
  ELSE IF Includes(combined, <<"n", "a", "m", "e">>) THEN "name"
  ELSE IF Includes(combined, <<"a", "d", "d", "r", "e", "s", "s">>) THEN "address"
  ELSE IF Includes(combined, <<"p", "h", "o", "n", "e">>) \/ Includes(combined, <<"t", "e", "l">>) THEN "phone"
  ELSE IF Includes(combined, <<"e", "m", "a", "i", "l">>) \/ Includes(combined, <<"e", "-", "m", "a", "i", "l">>) THEN "email"
  ELSE "text"

Classify(combined) ==
  IF IsSignature(combined) THEN "signature"
  ELSE IF IsCurrency(combined) THEN "currency"
  ELSE IF IsDate(combined) THEN "date"
  ELSE IF Includes(combined, <<"n", "a", "m", "e">>) THEN "name"
  ELSE IF Includes(combined, <<"a", "d", "d", "r", "e", "s", "s">>) THEN "address"
  ELSE IF Includes(combined, <<"p", "h", "o", "n", "e">>) \/ Includes(combined, <<"t", "e", "l">>) THEN "phone"
  ELSE IF Includes(combined, <<"e", "m", "a", "i", "l">>) \/ Includes(combined, <<"e", "-", "m", "a", "i", "l">>) THEN "email"
  ELSE "text"

guessFieldType(context, text) == Classify(Combined(context, text))

\* the characters of a field type
TypeChars(t) ==
  CASE t = "text" -> <<"t", "e", "x", "t">>
       [] t = "signature" -> <<"s", "i", "g", "n", "a", "t", "u", "r", "e">>
       [] t = "currency" -> <<"c", "u", "r", "r", "e", "n", "c", "y">>
       [] t = "date" -> <<"d", "a", "t", "e">>
       [] t = "name" -> <<"n", "a", "m", "e">>
       [] t = "address" -> <<"a", "d", "d", "r", "e", "s", "s">>
       [] t = "phone" -> <<"p", "h", "o", "n", "e">>
       [] t = "email" -> <<"e", "m", "a", "i", "l">>
       [] t = "checkbox" -> <<"c", "h", "e", "c", "k", "b", "o", "x">>
       [] t = "radio" -> <<"r", "a", "d", "i", "o">>

DigitChars == <<"0", "1", "2", "3", "4", "5", "6", "7", "8", "9">>

\* the decimal digits of a non-negative integer, as a template literal
\* writes it
RECURSIVE NumberToString(_)
NumberToString(n) ==
  IF n < 10 THEN <<DigitChars[n + 1]>>
  ELSE Append(NumberToString(n \div 10), DigitChars[(n % 10) + 1])

\* before.split(/\s+/).filter(w => w.length > 2): the runs of non-space
\* characters longer than 2, in order (the empty strings split yields at the
\* ends are filtered out with the short words)
RECURSIVE WordEnd(_, _)
WordEnd(text, i) ==
  IF i < Len(text) /\ ~IsSpace(CharAt(text, i)) THEN WordEnd(text, i + 1) ELSE i

RECURSIVE LongWords(_, _)
LongWords(text, i) ==
  IF i >= Len(text) THEN <<>>
  ELSE IF IsSpace(CharAt(text, i)) THEN LongWords(text, i + 1)
  ELSE LET j == WordEnd(text, i) IN
       (IF j - i > 2 THEN <<SubSeq(text, i + 1, j)>> ELSE <<>>) \o LongWords(text, j)

\* words.slice(-3)
LastThree(words) == SubSeq(words, Max(1, Len(words) - 2), Len(words))

\* words.join('_')
RECURSIVE JoinUnderscore(_)
JoinUnderscore(words) ==
  IF words = <<>> THEN <<>>
  ELSE IF Len(words) = 1 THEN words[1]
  ELSE words[1] \o <<"_">> \o JoinUnderscore(Tail(words))

\* .replace(/[^a-zA-Z0-9_]/g, '')
RECURSIVE StripNonWord(_)
StripNonWord(text) ==
  IF text = <<>> THEN <<>>
  ELSE (IF IsAlnum(Head(text)) \/ Head(text) = "_" THEN <<Head(text)>> ELSE <<>>)
       \o StripNonWord(Tail(text))

\* `${fieldType}_${index}`
IndexedNameNoIndex(fieldType, index) == TypeChars(fieldType)

IndexedName(fieldType, index) ==
  TypeChars(fieldType) \o <<"_">> \o NumberToString(index)

generateFieldName(context, index, fieldType) ==
  IF fieldType = "checkbox" \/ fieldType = "radio"
  THEN IndexedName(fieldType, index)
  ELSE LET words == LongWords(context.before, 0)
           lastWords == StripNonWord(JoinUnderscore(LastThree(words)))
       IN IF lastWords # <<>>
          THEN IndexedName(fieldType, index) \o <<"_">> \o lastWords
          ELSE IndexedName(fieldType, index)

-----------------------------------------------------------------------------
(* The detection loop of app.post('/process')                               *)
(*                                                                         *)
(* A font is [size, name, family_name]; a property that is missing is the   *)
(* falsy value of its type (0, <<>>), which a || b treats as it treats      *)
(* undefined, and element.Font undefined is the font with all three         *)
(* missing.  An area carries two fields that are not in the source: frag,   *)
(* the index of its merged fragment, and offset, the offset of its          *)
(* indicator in the fragment's text.                                        *)

\* a || b on numbers
OrNum(a, b) == IF a # 0 THEN a ELSE b

\* a || b on strings
OrStr(a, b) == IF a # <<>> THEN a ELSE b

\* charPositions[i]: undefined outside the array, which || treats as 0
PosAt(charPositions, i) ==
  IF i >= 0 /\ i < Len(charPositions) THEN charPositions[i + 1] ELSE 0

\* element.Font?.size || element.TextSize || 12
FontSizeOf(element) == OrNum(element.Font.size, OrNum(element.TextSize, 12))

\* element.Font?.name || element.Font?.family_name || 'Arial'
FontNameOf(element) ==
  OrStr(element.Font.name, OrStr(element.Font.family_name, <<"A", "r", "i", "a", "l">>))

\* fontSize * 0.85, in ticks
CheckboxSizeLarge(fontSize) == fontSize * 90 * 100

CheckboxSize(fontSize) == fontSize * 85 * 100

\* the area pushed for one glyph match
CheckboxArea(element, frag, checkbox, fieldIndex) ==
  LET text == element.Text
      bounds == element.Bounds
      fontSize == FontSizeOf(element)
      charPositions == calculateCharacterPositions(text, bounds[1] * Scale,
                                                   FontNameOf(element), fontSize)
      startX == OrNum(PosAt(charPositions, checkbox.index), bounds[1] * Scale)
      size == CheckboxSize(fontSize)
  IN [id |-> fieldIndex,
      field_name |-> IndexedName(checkbox.type, fieldIndex),
      page |-> OrNum(element.Page, 0),
      x |-> startX, y |-> bounds[2] * Scale, width |-> size, height |-> size,
      field_type |-> checkbox.type,
      context |->
        [before |-> Substring(text, Max(0, checkbox.index - 50), checkbox.index),
         after |-> Substring(text, checkbox.index + checkbox.length,
                             Min(Len(text), checkbox.index + 100)),
         full |-> text],
      font_size |-> fontSize * Scale,
      frag |-> frag, offset |-> checkbox.index]

\* Math.max(endX - startX, 20), in ticks
MinWidth == 20

\* the area pushed for one underscore segment
UnderscoreArea(element, frag, segment, fieldIndex) ==
  LET text == element.Text
      bounds == element.Bounds
      fontSize == FontSizeOf(element)
      fontName == FontNameOf(element)
      charPositions == calculateCharacterPositions(text, bounds[1] * Scale,
                                                   fontName, fontSize)
      charWidth == getCharWidth(fontName, fontSize)
      startX == OrNum(PosAt(charPositions, segment.startIndex), bounds[1] * Scale)
      endX == OrNum(PosAt(charPositions, segment.endIndex),
                    startX + segment.length * charWidth)
      width == Max(endX - startX, MinWidth * Scale)
      context == getContext(text, segment.startIndex, segment.endIndex)
      fieldType == guessFieldType(context, text)
  IN [id |-> fieldIndex,
      field_name |-> generateFieldName(context, fieldIndex, fieldType),
      page |-> OrNum(element.Page, 0),
      x |-> startX, y |-> bounds[2] * Scale, width |-> width,
      height |-> (bounds[4] - bounds[2]) * Scale,
      field_type |-> fieldType,
      context |-> context,
      font_size |-> fontSize * 70 * 100,
      frag |-> frag, offset |-> segment.startIndex]

\* the numbering if fieldIndex were not advanced by the pushes of the glyph
\* matches
ElementAreasPerKind(element, frag, fieldIndex) ==
  LET checkboxes == detectCheckboxes(element.Text)
      segments == IF Includes(element.Text, <<"_">>)
                  THEN findUnderscoreSegments(element.Text, 2)
                  ELSE <<>>
  IN [k \in 1..Len(checkboxes) |->
        CheckboxArea(element, frag, checkboxes[k], fieldIndex + k - 1)]
     \o [k \in 1..Len(segments) |->
        UnderscoreArea(element, frag, segments[k], fieldIndex + k - 1)]

\* the areas of one merged fragment: its glyph matches, then its underscore
\* segments (only if (text.includes('_'))), numbered from fieldIndex on
ElementAreas(element, frag, fieldIndex) ==
  LET checkboxes == detectCheckboxes(element.Text)
      segments == IF Includes(element.Text, <<"_">>)
                  THEN findUnderscoreSegments(element.Text, 2)
                  ELSE <<>>
  IN [k \in 1..Len(checkboxes) |->
        CheckboxArea(element, frag, checkboxes[k], fieldIndex + k - 1)]
     \o [k \in 1..Len(segments) |->
        UnderscoreArea(element, frag, segments[k], fieldIndex + Len(checkboxes) + k - 1)]

\* for (const element of mergedElements) { ... }, with fieldIndex = 1 before
\* the loop and fieldIndex++ after every push
RECURSIVE DetectLoop(_, _, _)
DetectLoop(mergedElements, fillableAreas, frag) ==
  IF frag > Len(mergedElements) THEN fillableAreas
  ELSE DetectLoop(mergedElements,
                  fillableAreas \o ElementAreas(mergedElements[frag], frag,
                                                Len(fillableAreas) + 1),
                  frag + 1)

DetectAreas(extract_elements) ==
  DetectLoop(mergeMultilineElements(extract_elements), <<>>, 1)

-----------------------------------------------------------------------------
(* app.post('/process')                                                     *)
(*                                                                         *)
(* h[r] is the handler's state for request r.  A request is                 *)
(* [pdf_url, elementsType, extract_elements]: pdf_url <<>> is a missing     *)
(* pdf_url, elementsType is "array" when extract_elements is an array,      *)
(* "undefined" when it is missing and "object" when it is something else.   *)
(* The handler runs from one await to the next in one step; the loop over   *)
(* the areas takes one step per area.  pages and blocked are what the       *)
(* fetched document holds: its pages' sizes, and the ids of the areas for   *)
(* which the widget library throws (a field of that name exists already).   *)
(* widgets lists the rectangles handed to the library's addToPage and       *)
(* addOptionToPage, in call order.                                          *)

Requests == {1, 2}

NoResponse == [status |-> 0]

HStart(req) ==
  [pc |-> "start", req |-> req, mergedElements |-> <<>>,
   fillableAreas |-> <<>>, fetchCalls |-> 0,
   pages |-> <<>>, blocked |-> {}, next |-> 1,
   successCount |-> 0, errorCount |-> 0, createdFields |-> <<>>, errors |-> <<>>,
   widgets |-> <<>>, res |-> NoResponse]

HAbsent == [HStart([pdf_url |-> <<>>, elementsType |-> "undefined",
                    extract_elements |-> <<>>]) EXCEPT !.pc = "absent"]

HIdle == [r \in Requests |-> HAbsent]

\* res.status(400).json({ error })
Response400(error) == [status |-> 400, error |-> error]

\* the response of the zero-regions case
ResponseEmpty ==
  [status |-> 200, success |-> TRUE, pdf_base64 |-> "null",
   statistics |-> [detected_areas |-> 0, created_fields |-> 0],
   fields |-> <<>>, message |-> "No form fields found in PDF"]

\* a catch that answered with the (empty) list of created fields
Response500WithFields(error) ==
  [status |-> 500, success |-> FALSE, error |-> error, fields |-> <<>>]

\* the catch of the handler
Response500(error) == [status |-> 500, success |-> FALSE, error |-> error]

\* the handler without its two validation returns
ValidRequestAny(req) == TRUE

ValidRequest(req) == req.pdf_url # <<>> /\ req.elementsType = "array"

\* if (fillableAreas.length === 0)
NoAreasNever(fillableAreas) == FALSE

NoAreas(fillableAreas) == Len(fillableAreas) = 0

\* if (!pdf_url) return res.status(400)...
RejectNoUrl(r) ==
  /\ h[r].pc = "start"
  /\ h[r].req.pdf_url = <<>>
  /\ h' = [h EXCEPT ![r].pc = "done",
                    ![r].res = Response400("pdf_url is required")]
  /\ UNCHANGED <<fin, fout, fpc>>

\* if (!extract_elements || !Array.isArray(extract_elements)) return ...
RejectNoElements(r) ==
  /\ h[r].pc = "start"
  /\ h[r].req.pdf_url # <<>>
  /\ h[r].req.elementsType # "array"
  /\ h' = [h EXCEPT ![r].pc = "done",
                    ![r].res = Response400("extract_elements array is required")]
  /\ UNCHANGED <<fin, fout, fpc>>

\* steps 1 and 2 find no area: the empty response, and the handler returns
RespondEmpty(r) ==
  /\ h[r].pc = "start"
  /\ ValidRequest(h[r].req)
  /\ NoAreas(DetectAreas(h[r].req.extract_elements))
  /\ h' = [h EXCEPT ![r].pc = "done",
                    ![r].mergedElements = mergeMultilineElements(h[r].req.extract_elements),
                    ![r].fillableAreas = DetectAreas(h[r].req.extract_elements),
                    ![r].res = ResponseEmpty]
  /\ UNCHANGED <<fin, fout, fpc>>

\* steps 1 and 2 find areas: const response = await fetch(pdf_url)
StartFetch(r) ==
  /\ h[r].pc = "start"
  /\ ValidRequest(h[r].req)
  /\ ~NoAreas(DetectAreas(h[r].req.extract_elements))
  /\ h' = [h EXCEPT ![r].pc = "await_fetch",
                    ![r].mergedElements = mergeMultilineElements(h[r].req.extract_elements),
                    ![r].fillableAreas = DetectAreas(h[r].req.extract_elements),
                    ![r].fetchCalls = h[r].fetchCalls + 1]
  /\ UNCHANGED <<fin, fout, fpc>>

\* fetch rejects, or the response is not ok: the catch answers 500
FetchFails(r) ==
  /\ h[r].pc = "await_fetch"
  /\ \E error \in {"fetch failed", "Failed to download PDF"} :
       h' = [h EXCEPT ![r].pc = "done", ![r].res = Response500(error)]
  /\ UNCHANGED <<fin, fout, fpc>>

\* the response is ok: await response.arrayBuffer(), PDFDocument.load, embedFont
FetchOk(r) ==
  /\ h[r].pc = "await_fetch"
  /\ h' = [h EXCEPT ![r].pc = "await_load"]
  /\ UNCHANGED <<fin, fout, fpc>>

\* the bytes are no document the library can load: the catch answers 500
LoadFails(r) ==
  /\ h[r].pc = "await_load"
  /\ h' = [h EXCEPT ![r].pc = "done", ![r].res = Response500("Failed to parse PDF")]
  /\ UNCHANGED <<fin, fout, fpc>>

\* sizes of a page, in units
PageSizes == {[width |-> 612, height |-> 792], [width |-> 200, height |-> 100]}

\* the documents a request may find at pdf_url
Documents ==
  {[pages |-> pages, blocked |-> blocked] :
     pages \in UNION {[1..n -> PageSizes] : n \in 1..MaxPages},
     blocked \in {{}, {2}}}

\* the document is loaded: the counters of the loop are set up
LoadOk(r) ==
  /\ h[r].pc = "await_load"
  /\ \E doc \in Documents :
       h' = [h EXCEPT ![r].pc = "placing", ![r].pages = doc.pages,
                      ![r].blocked = doc.blocked, ![r].next = 1,
                      ![r].successCount = 0, ![r].errorCount = 0,
                      ![r].createdFields = <<>>, ![r].errors = <<>>,
                      ![r].widgets = <<>>]
  /\ UNCHANGED <<fin, fout, fpc>>

\* pages[area.page]: a page of the document, or undefined
HasPage(pages, page) == page >= 0 /\ page < Len(pages)

\* a clamp whose width bound forgets safeX
SafeRectWholeWidth(area, page) ==
  LET pageHeight == page.height * Scale
      pageWidth == page.width * Scale
      safeX == Max(0, Min(area.x, pageWidth - 10 * Scale))
      safeY == Max(0, Min(area.y, pageHeight - 5 * Scale))
      safeWidth == Max(10 * Scale, Min(area.width, pageWidth))
      safeHeight == Max(5 * Scale, Min(area.height, pageHeight - safeY))
  IN [x |-> safeX, y |-> safeY, width |-> safeWidth, height |-> safeHeight]

\* the clamped rectangle, in ticks
SafeRect(area, page) ==
  LET pageHeight == page.height * Scale
      pageWidth == page.width * Scale
      safeX == Max(0, Min(area.x, pageWidth - 10 * Scale))
      safeY == Max(0, Min(area.y, pageHeight - 5 * Scale))
      safeWidth == Max(10 * Scale, Min(area.width, pageWidth - safeX))
      safeHeight == Max(5 * Scale, Min(area.height, pageHeight - safeY))
  IN [x |-> safeX, y |-> safeY, width |-> safeWidth, height |-> safeHeight]

\* the entry pushed to createdFields: a text field also records its width
\* and the first 100 characters of its context
CreatedField(area, safe) ==
  IF area.field_type \in {"checkbox", "radio"}
  THEN [id |-> area.id, name |-> area.field_name, type |-> area.field_type,
        page |-> area.page, x |-> safe.x, y |-> safe.y]
  ELSE [id |-> area.id, name |-> area.field_name, type |-> area.field_type,
        page |-> area.page, x |-> safe.x, y |-> safe.y, width |-> safe.width,
        context |-> Substring(area.context.full, 0, 100)]

\* the placement step if successCount were a variable of the module, shared
\* by all requests
PlaceOkShared(r) ==
  /\ h[r].pc = "placing"
  /\ h[r].next <= Len(h[r].fillableAreas)
  /\ LET area == h[r].fillableAreas[h[r].next] IN
     /\ HasPage(h[r].pages, area.page)
     /\ area.id \notin h[r].blocked
     /\ LET safe == SafeRect(area, h[r].pages[area.page + 1])
            own == [h[r] EXCEPT !.next = h[r].next + 1,
                                !.successCount = h[r].successCount + 1,
                                !.widgets = Append(h[r].widgets,
                                                   [name |-> area.field_name, rect |-> safe]),
                                !.createdFields =
                                   Append(h[r].createdFields, CreatedField(area, safe))]
        IN h' = [q \in Requests |->
                   IF q = r THEN own
                   ELSE [h[q] EXCEPT !.successCount = h[q].successCount + 1]]
  /\ UNCHANGED <<fin, fout, fpc>>

\* one area of the loop is placed: the widget is created and recorded
PlaceOk(r) ==
  /\ h[r].pc = "placing"
  /\ h[r].next <= Len(h[r].fillableAreas)
  /\ LET area == h[r].fillableAreas[h[r].next] IN
     /\ HasPage(h[r].pages, area.page)
     /\ area.id \notin h[r].blocked
     /\ LET safe == SafeRect(area, h[r].pages[area.page + 1]) IN
        h' = [h EXCEPT ![r].next = h[r].next + 1,
                       ![r].successCount = h[r].successCount + 1,
                       ![r].widgets = Append(h[r].widgets,
                                             [name |-> area.field_name, rect |-> safe]),
                       ![r].createdFields =
                          Append(h[r].createdFields, CreatedField(area, safe))]
  /\ UNCHANGED <<fin, fout, fpc>>

\* the loop without its inner try: the throw reaches the catch of the handler
PlaceFailsAborts(r) ==
  /\ h[r].pc = "placing"
  /\ h[r].next <= Len(h[r].fillableAreas)
  /\ LET area == h[r].fillableAreas[h[r].next] IN
     /\ ~HasPage(h[r].pages, area.page) \/ area.id \in h[r].blocked
     /\ h' = [h EXCEPT ![r].pc = "done",
                       ![r].res = Response500(IF ~HasPage(h[r].pages, area.page)
                                              THEN "Page not found"
                                              ELSE "field exists")]
  /\ UNCHANGED <<fin, fout, fpc>>

\* placing one area throws: the inner catch records it and the loop goes on
PlaceFails(r) ==
  /\ h[r].pc = "placing"
  /\ h[r].next <= Len(h[r].fillableAreas)
  /\ LET area == h[r].fillableAreas[h[r].next] IN
     /\ ~HasPage(h[r].pages, area.page) \/ area.id \in h[r].blocked
     /\ h' = [h EXCEPT ![r].next = h[r].next + 1,
                       ![r].errorCount = h[r].errorCount + 1,
                       ![r].errors =
                          Append(h[r].errors,
                                 [name |-> area.field_name,
                                  message |-> IF ~HasPage(h[r].pages, area.page)
                                              THEN "Page not found"
                                              ELSE "field exists"])]
  /\ UNCHANGED <<fin, fout, fpc>>

\* the loop is over: const pdfBytes = await pdfDoc.save()
StartSave(r) ==
  /\ h[r].pc = "placing"
  /\ h[r].next > Len(h[r].fillableAreas)
  /\ h' = [h EXCEPT ![r].pc = "await_save"]
  /\ UNCHANGED <<fin, fout, fpc>>

CountType(createdFields, type) ==
  Cardinality({k \in 1..Len(createdFields) : createdFields[k].type = type})

\* the success response
ResponseOk(st) ==
  [status |-> 200, success |-> TRUE, pdf_base64 |-> "document",
   statistics |->
     [detected_areas |-> Len(st.fillableAreas),
      created_fields |-> st.successCount,
      errors |-> st.errorCount,
      text |-> CountType(st.createdFields, "text"),
      signature |-> CountType(st.createdFields, "signature"),
      currency |-> CountType(st.createdFields, "currency"),
      date |-> CountType(st.createdFields, "date"),
      name |-> CountType(st.createdFields, "name"),
      checkboxes |-> CountType(st.createdFields, "checkbox"),
      radio_buttons |-> CountType(st.createdFields, "radio")],
   fields |-> st.createdFields,
   error_details |-> SubSeq(st.errors, 1, Min(Len(st.errors), 10))]

\* the document is serialized and the response sent
SaveOk(r) ==
  /\ h[r].pc = "await_save"
  /\ h' = [h EXCEPT ![r].pc = "done", ![r].res = ResponseOk(h[r])]
  /\ UNCHANGED <<fin, fout, fpc>>

\* pdfDoc.save() rejects: the catch answers 500
SaveFails(r) ==
  /\ h[r].pc = "await_save"
  /\ h' = [h EXCEPT ![r].pc = "done", ![r].res = Response500("save failed")]
  /\ UNCHANGED <<fin, fout, fpc>>

Handle(r) ==
  \/ RejectNoUrl(r)
  \/ RejectNoElements(r)
  \/ RespondEmpty(r)
  \/ StartFetch(r)
  \/ FetchFails(r)
  \/ FetchOk(r)
  \/ LoadFails(r)
  \/ LoadOk(r)
  \/ PlaceOk(r)
  \/ PlaceFails(r)
  \/ StartSave(r)
  \/ SaveOk(r)
  \/ SaveFails(r)

-----------------------------------------------------------------------------
(* Specification SpecSeg: findUnderscoreSegments(text, 2) on every text of  *)
(* at most MaxTextLen characters                                            *)

SegAlphabet == {"_", " ", "a", ",", ":"}

InitSeg ==
  /\ h = HIdle
  /\ fin \in TextsUpTo(SegAlphabet, MaxTextLen)
  /\ fout = <<>>
  /\ fpc = "call"

CallFindUnderscoreSegments ==
  /\ fpc = "call"
  /\ fout' = findUnderscoreSegments(fin, 2)
  /\ fpc' = "ret"
  /\ UNCHANGED <<h, fin>>

NextSeg == CallFindUnderscoreSegments

SpecSeg == InitSeg /\ [][NextSeg]_vars

\* number of underscores of text at the offsets lo..hi
UnderscoresIn(text, lo, hi) ==
  Cardinality({i \in lo..hi : CharAt(text, i) = "_"})

\* C3: every segment findUnderscoreSegments(text, 2) emits has at least 2
\* underscores in [startIndex, endIndex], its length field is the number of
\* underscores in that range, and a text with fewer than 2 underscores
\* yields no segment.
C3_MinLengthAndCount ==
  fpc = "ret" =>
    /\ \A k \in 1..Len(fout) :
         /\ UnderscoresIn(fin, fout[k].startIndex, fout[k].endIndex) >= 2
         /\ fout[k].length = UnderscoresIn(fin, fout[k].startIndex, fout[k].endIndex)
    /\ (UnderscoresIn(fin, 0, Len(fin) - 1) < 2 => fout = <<>>)

\* a second run is counted after a first one was discarded for being short,
\* and the emitted segment holds a space between its underscores
C3_Witness ==
  /\ fpc = "ret"
  /\ fin = <<"_", "a", "_", " ", "_">>
  /\ fout = <<[startIndex |-> 2, endIndex |-> 4, length |-> 2]>>

\* C4: the emitted segments are in range and strictly ordered:
\* 0 <= s1.startIndex <= s1.endIndex < s2.startIndex <= ... <= sn.endIndex < len(text).
C4_OrderedDisjoint ==
  fpc = "ret" =>
    /\ \A k \in 1..Len(fout) :
         /\ 0 <= fout[k].startIndex
         /\ fout[k].startIndex <= fout[k].endIndex
         /\ fout[k].endIndex < Len(fin)
    /\ \A k \in 1..(Len(fout) - 1) : fout[k].endIndex < fout[k + 1].startIndex

\* two segments, the second one closed by the end of the text
C4_Witness ==
  /\ fpc = "ret"
  /\ Len(fout) = 2
  /\ fout[2].endIndex = Len(fin) - 1

-----------------------------------------------------------------------------
(* Specification SpecMerge: mergeMultilineElements of both versions on      *)
(* every list of at most MaxElems elements of a pool                        *)

NoFont == [size |-> 0, name |-> <<>>, family_name |-> <<>>]

Elem(text, bounds, page) ==
  [Text |-> text, TextType |-> "string", Bounds |-> bounds, Page |-> page,
   Font |-> NoFont, TextSize |-> 0]

MergePool ==
  { Elem(<<"_", "_">>, <<100, 700, 105, 715>>, 0),     \* a narrow blank
    Elem(<<"_", "_">>, <<96, 700, 120, 712>>, 0),      \* starts left of it, overlapping
    Elem(<<"_", "_">>, <<130, 720, 200, 730>>, 0),     \* to the right, 20 lower
    Elem(<<"_", "_">>, <<130, 735, 200, 745>>, 0),     \* to the right, 35 lower
    Elem(<<"_", "_">>, <<300, 700, 350, 710>>, 0),     \* 195 to the right
    Elem(<<"_", "_">>, <<100, 700, 105, 715>>, 1),     \* the same boxes on page 1
    Elem(<<"_", "_">>, <<96, 700, 120, 712>>, 1),
    Elem(<<" ", "[", "]">>, <<110, 705, 125, 718>>, 0),
    Elem(<<"a">>, <<106, 700, 125, 715>>, 0),          \* prose
    Elem(<<>>, <<106, 700, 125, 715>>, 0),             \* empty text
    [Elem(<<>>, <<106, 700, 125, 715>>, 0) EXCEPT !.TextType = "undefined"] }

InitMerge ==
  /\ h = HIdle
  /\ fin \in UNION {[1..k -> MergePool] : k \in 0..MaxElems}
  /\ fout = <<>>
  /\ fpc = "call"

CallMerge ==
  /\ fpc = "call"
  /\ fout' = mergeMultilineElements(fin)
  /\ fpc' = "ret"
  /\ UNCHANGED <<h, fin>>

CallMerge_v231 ==
  /\ fpc = "call"
  /\ fout' = mergeMultilineElements_v231(fin)
  /\ fpc' = "ret_v231"
  /\ UNCHANGED <<h, fin>>

NextMerge == CallMerge \/ CallMerge_v231

SpecMerge == InitMerge /\ [][NextMerge]_vars

SetMin(S) == CHOOSE x \in S : \A y \in S : x <= y
SetMax(S) == CHOOSE x \in S : \A y \in S : x >= y
Range(f) == {f[k] : k \in DOMAIN f}

\* C1: every merged fragment, of either version, is built only from input
\* elements that have the Page of the merged fragment.
C1_NeverAcrossPages ==
  fpc \in {"ret", "ret_v231"} =>
    \A k \in 1..Len(fout) :
      \A j \in Range(fout[k].src) : fin[j].Page = fout[k].Page

\* two fragments of page 0 were merged although a fragment of page 1, close
\* enough to be merged with them, came next
C1_Witness ==
  /\ fpc \in {"ret", "ret_v231"}
  /\ Len(fin) = 3 /\ fin[1].Page = 0 /\ fin[2].Page = 0 /\ fin[3].Page = 1
  /\ CanMerge(fin[2].Bounds, fin[3].Bounds)
  /\ Len(fout) = 2
  /\ fout[1].src = <<1, 2>>

\* C2: in src/index.js the Bounds of every merged fragment are the union of
\* the bounds of the fragments merged into it.
C2_BoundsAreUnion ==
  fpc = "ret" =>
    \A k \in 1..Len(fout) :
      LET parts == {fin[j].Bounds : j \in Range(fout[k].src)} IN
      /\ fout[k].Bounds[1] = SetMin({b[1] : b \in parts})
      /\ fout[k].Bounds[2] = SetMin({b[2] : b \in parts})
      /\ fout[k].Bounds[3] = SetMax({b[3] : b \in parts})
      /\ fout[k].Bounds[4] = SetMax({b[4] : b \in parts})

-----------------------------------------------------------------------------
(* Specification Spec: one /process request, drawn from the requests whose  *)
(* extract_elements is a list of at most MaxReqElems elements of a pool     *)

Font(name, size) == [size |-> size, name |-> name, family_name |-> <<>>]

TextElem(text, bounds, page, font, textSize) ==
  [Text |-> text, TextType |-> "string", Bounds |-> bounds, Page |-> page,
   Font |-> font, TextSize |-> textSize]

NameText == <<"N", "a", "m", "e", ":", " ", "_", "_", "_", "_", "_">>
SignatureDateText == <<"S", "i", "g", "n", "a", "t", "u", "r", "e", ":", " ", "_", "_", "_", "_", "_", "_", "_", "_", " ", " ", "D", "a", "t", "e", ":", " ", "_", "_", "_">>
AgreeText == <<"U2610", " ", "I", " ", "a", "g", "r", "e", "e">>

NameElem == TextElem(NameText, <<100, 700, 250, 715>>, 0, Font(<<"A", "r", "i", "a", "l">>, 12), 0)

RequestPool ==
  { NameElem,
    \* a blank right of NameElem, on its line
    TextElem(<<"_", "_", "_">>, <<255, 700, 300, 715>>, 0, NoFont, 0),
    TextElem(SignatureDateText, <<100, 650, 400, 665>>, 0, Font(<<"H", "e", "l", "v", "e", "t", "i", "c", "a">>, 10), 0),
    TextElem(AgreeText, <<50, 600, 150, 612>>, 0, NoFont, 10),
    TextElem(AgreeText, <<0, 600, 100, 612>>, 1, Font(<<"C", "o", "u", "r", "i", "e", "r">>, 0), 0),
    TextElem(<<"[", " ", "]", " ", "(", " ", ")", " ", "[", "]", " ", "(", ")", " ", "U25A1", " ", "A", "m", "o", "u", "n", "t", ":", " ", "$", "_", "_", " ", "_", "_">>, <<-30, 500, 300, 520>>, 0, NoFont, 0),
    \* prose, and a text with a single underscore
    TextElem(<<"H", "e", "l", "l", "o">>, <<100, 400, 150, 412>>, 0, NoFont, 0),
    TextElem(<<"a", "_", "b">>, <<100, 300, 150, 312>>, 0, NoFont, 0) }

RequestSet ==
  {[pdf_url |-> <<"u">>, elementsType |-> "array", extract_elements |-> elements] :
     elements \in UNION {[1..k -> RequestPool] : k \in 0..MaxReqElems}}
  \cup {[pdf_url |-> <<>>, elementsType |-> "array", extract_elements |-> <<NameElem>>],
        [pdf_url |-> <<"u">>, elementsType |-> "undefined", extract_elements |-> <<>>],
        [pdf_url |-> <<"u">>, elementsType |-> "object", extract_elements |-> <<>>]}

Init ==
  /\ \E req \in RequestSet : h = [HIdle EXCEPT ![1] = HStart(req)]
  /\ fin = <<>>
  /\ fout = <<>>
  /\ fpc = "idle"

Next == \E r \in Requests : Handle(r)

Spec == Init /\ [][Next]_vars

-----------------------------------------------------------------------------
(* Claims about one /process request (specification Spec)                   *)

\* the request r passed validation and its detection step has run
Detected(r) == h[r].pc \notin {"absent", "start"} /\ ValidRequest(h[r].req)

\* the request's extract_elements is the single fragment with this text
SingleFragment(r, text) ==
  /\ Len(h[r].req.extract_elements) = 1
  /\ h[r].req.extract_elements[1].Text = text

\* C6: for the single fragment "Signature: ________  Date: ___" detection
\* yields exactly two underscore regions, the first of type signature and
\* the second of type date.
C6_SignatureThenDate ==
  \A r \in Requests :
    Detected(r) /\ SingleFragment(r, SignatureDateText) =>
      /\ Len(h[r].fillableAreas) = 2
      /\ h[r].fillableAreas[1].field_type = "signature"
      /\ h[r].fillableAreas[2].field_type = "date"

\* C7: for the single fragment "Name: _____" at [100,700,250,715], Arial 12,
\* detection emits exactly one region, of type name, at the positioner's x
\* of the first underscore (offset 6), at least 30 wide.
C7_NameRegion ==
  \A r \in Requests :
    Detected(r) /\ h[r].req.extract_elements = <<NameElem>> =>
      /\ Len(h[r].fillableAreas) = 1
      /\ h[r].fillableAreas[1].field_type = "name"
      /\ h[r].fillableAreas[1].x =
           calculateCharacterPositions(NameText, 100 * Scale, <<"A", "r", "i", "a", "l">>, 12)[7]
      /\ h[r].fillableAreas[1].width >= 30 * Scale

\* the areas emitted for the merged fragment k of request r
AreasOfFragment(r, k) ==
  SelectSeq(h[r].fillableAreas, LAMBDA a : a.frag = k)

\* C8: a fragment whose text is "[U+2610] I agree" yields exactly one region:
\* a checkbox at offset 0, at x = Bounds[0], a square of side fontSize * 0.85.
C8_AgreeCheckbox ==
  \A r \in Requests :
    Detected(r) =>
      \A k \in 1..Len(h[r].mergedElements) :
        h[r].mergedElements[k].Text = AgreeText =>
          LET areas == AreasOfFragment(r, k)
              fontSize == FontSizeOf(h[r].mergedElements[k])
          IN /\ Len(areas) = 1
             /\ areas[1].field_type = "checkbox"
             /\ areas[1].offset = 0
             /\ areas[1].x = h[r].mergedElements[k].Bounds[1] * Scale
             /\ areas[1].width = (fontSize * 85 * Scale) \div 100
             /\ areas[1].height = areas[1].width

\* the fragment starts at x = 0, where charPositions[0] || bounds[0] takes
\* its second operand, and its font size is the default 12
C8_Witness ==
  /\ h[1].pc = "await_fetch"
  /\ Len(h[1].mergedElements) = 2
  /\ h[1].mergedElements[2].Text = AgreeText
  /\ h[1].mergedElements[2].Bounds[1] = 0
  /\ h[1].fillableAreas[Len(h[1].fillableAreas)].width = 102000

\* no merged fragment of the elements has a glyph match or an underscore
\* segment
ZeroRegions(extract_elements) ==
  \A element \in Range(mergeMultilineElements(extract_elements)) :
    /\ detectCheckboxes(element.Text) = <<>>
    /\ findUnderscoreSegments(element.Text, 2) = <<>>

\* C9: when detection yields zero regions and pdf_url is present, the
\* response is success = true, fields = [], pdf_base64 = null with a
\* message, and fetch is never called: fetch is only ever called with a
\* non-empty region list.
C9_ZeroRegionsNoFetch ==
  \A r \in Requests :
    /\ Detected(r) /\ ZeroRegions(h[r].req.extract_elements) =>
         /\ h[r].pc = "done"
         /\ h[r].fetchCalls = 0
         /\ h[r].res.status = 200
         /\ h[r].res.success = TRUE
         /\ h[r].res.fields = <<>>
         /\ h[r].res.pdf_base64 = "null"
         /\ h[r].res.message = "No form fields found in PDF"
    /\ h[r].fetchCalls > 0 => Len(h[r].fillableAreas) > 0

\* a request with two candidate fragments, neither holding a region
C9_Witness ==
  /\ h[1].pc = "done"
  /\ Len(h[1].req.extract_elements) = 2
  /\ \A k \in 1..2 : hasUnderscore(h[1].req.extract_elements[k])
  /\ h[1].res = ResponseEmpty
  /\ h[1].fetchCalls = 0

\* C10: the field names of one run are pairwise distinct, and
\* generateFieldName gives one context and type different names for
\* different indices (up to NameIndexBound).
C10_DistinctNames ==
  \A r \in Requests :
    LET areas == h[r].fillableAreas IN
    /\ \A i, j \in 1..Len(areas) : i # j => areas[i].field_name # areas[j].field_name
    /\ h[r].pc = "await_fetch" =>
         \A k \in 1..Len(areas) :
           \A i, j \in 1..NameIndexBound :
             i # j => generateFieldName(areas[k].context, i, areas[k].field_type)
                      # generateFieldName(areas[k].context, j, areas[k].field_type)

\* twelve regions, two of them underscore regions of the same type whose
\* field names differ in the index only
C10_Witness ==
  /\ h[1].pc = "await_fetch"
  /\ Len(h[1].fillableAreas) = 12
  /\ h[1].fillableAreas[6].field_type = h[1].fillableAreas[12].field_type
  /\ SubSeq(h[1].fillableAreas[6].field_name, 11, 17)
       = SubSeq(h[1].fillableAreas[12].field_name, 12, 18)
  /\ h[1].fillableAreas[6].context.before = h[1].fillableAreas[12].context.before

-----------------------------------------------------------------------------
(* Specification SpecClassify: guessFieldType on contexts and texts put     *)
(* together from a vocabulary                                               *)

Vocabulary ==
  {<<"S", "i", "g", "n", "a", "t", "u", "r", "e">>,
   <<"s", "i", "g", "n", "e", "d", " ", "b", "y">>,
   <<"s", "i", "g", "n">>,
   <<":">>,
   <<"$", "1", "0", "0">>,
   <<"p", "r", "i", "c", "e">>,
   <<"D", "a", "t", "e">>,
   <<"n", "a", "m", "e">>,
   <<" ">>,
   <<"i", "n", "i", "t", "i", "a", "l">>}

\* the concatenations of at most n words
RECURSIVE Phrases(_)
Phrases(n) ==
  IF n = 0 THEN {<<>>}
  ELSE Phrases(n - 1) \cup {p \o w : p \in Phrases(n - 1), w \in Vocabulary}

InitClassify ==
  /\ h = HIdle
  /\ fin \in {[context |-> [before |-> before, after |-> after], text |-> text] :
                before \in Phrases(MaxWords), after \in Phrases(1), text \in Phrases(1)}
  /\ fout = ""
  /\ fpc = "call"

CallGuessFieldType ==
  /\ fpc = "call"
  /\ fout' = guessFieldType(fin.context, fin.text)
  /\ fpc' = "ret"
  /\ UNCHANGED <<h, fin>>

NextClassify == CallGuessFieldType

SpecClassify == InitClassify /\ [][NextClassify]_vars

\* the text guessFieldType searches, lower-cased
SearchedText ==
  ToLowerCase(fin.context.before \o <<" ">> \o fin.context.after \o <<" ">> \o fin.text)

\* C5: whenever the combined text contains "signature" and a currency
\* trigger, guessFieldType returns signature and never currency.
C5_SignatureBeforeCurrency ==
  fpc = "ret" =>
    (/\ Includes(SearchedText, <<"s", "i", "g", "n", "a", "t", "u", "r", "e">>)
     /\ \/ Includes(SearchedText, <<"$", "1", "0", "0">>)
        \/ Includes(SearchedText, <<"p", "r", "i", "c", "e">>)
     => fout = "signature")

\* "Signature" in the text before the blank, "$100" after it
C5_Witness ==
  /\ fpc = "ret"
  /\ fin.context.before = <<"S", "i", "g", "n", "a", "t", "u", "r", "e">>
  /\ fin.context.after = <<"$", "1", "0", "0">>
  /\ fin.text = <<>>
  /\ fout = "signature"

-----------------------------------------------------------------------------
(* Specification SpecPos: calculateCharacterPositions as the detection loop *)
(* calls it, on one element: text = element.Text, startX = Bounds[0],       *)
(* fontName and fontSize chosen by the || chains of the loop                *)

MaxPosLen == 3

\* one character of every branch of the advance
PosAlphabet == {"_", " ", "(", "U2610", ".", ","}

\* Font objects and TextSize values an element of the request body may
\* carry; the handler does not validate them
PosFonts ==
  {[Font |-> Font(<<"A", "r", "i", "a", "l">>, 12), TextSize |-> 0],
   [Font |-> Font(<<"C", "o", "u", "r", "i", "e", "r">>, 0), TextSize |-> 10],
   [Font |-> NoFont, TextSize |-> 0],
   [Font |-> Font(<<"T", "i", "m", "e", "s">>, -5), TextSize |-> 10],
   [Font |-> NoFont, TextSize |-> -8]}

PosStarts == {-30, 0, 100}

InitPos ==
  /\ h = HIdle
  /\ fin \in {TextElem(text, <<x, 700, x + 50, 715>>, 0, f.Font, f.TextSize) :
                text \in TextsUpTo(PosAlphabet, MaxPosLen), x \in PosStarts, f \in PosFonts}
  /\ fout = <<>>
  /\ fpc = "call"

\* const charPositions = calculateCharacterPositions(text, bounds[0], fontName, fontSize)
CallCalculateCharacterPositions ==
  /\ fpc = "call"
  /\ fout' = calculateCharacterPositions(fin.Text, fin.Bounds[1] * Scale,
                                         FontNameOf(fin), FontSizeOf(fin))
  /\ fpc' = "ret"
  /\ UNCHANGED <<h, fin>>

NextPos == CallCalculateCharacterPositions

SpecPos == InitPos /\ [][NextPos]_vars

\* C11: the positions the detection loop gets from
\* calculateCharacterPositions never decrease: positions[i+1] >= positions[i]
\* for all i, for every element's text, Bounds[0], font name and font size
\* (Font.size || TextSize || 12).
C11_PositionsNonDecreasing ==
  fpc = "ret" => \A i \in 1..(Len(fout) - 1) : fout[i + 1] >= fout[i]

-----------------------------------------------------------------------------
(* Specification SpecConc: two /process requests in flight.  Each handler   *)
(* runs from one await to the next without interruption (one event loop),   *)
(* and the steps of the two handlers interleave in every order, among them  *)
(* the orders in which one request is over before the other starts.         *)

BoxesText == <<"[", "]", " ", "_", "_">>

\* two fragments, on pages 0 and 1, with a glyph match and a blank in the
\* first and a glyph match in the second: three regions
ConcBoxes ==
  <<TextElem(BoxesText, <<100, 500, 150, 512>>, 0, NoFont, 0),
    TextElem(AgreeText, <<0, 600, 100, 612>>, 1, Font(<<"C", "o", "u", "r", "i", "e", "r">>, 0), 0)>>

\* a request with regions, one without, and the two invalid ones
ConcRequests ==
  {[pdf_url |-> <<"u">>, elementsType |-> "array", extract_elements |-> ConcBoxes],
   [pdf_url |-> <<"u">>, elementsType |-> "array",
    extract_elements |-> <<TextElem(<<"H", "e", "l", "l", "o">>, <<100, 400, 150, 412>>, 0, NoFont, 0)>>],
   [pdf_url |-> <<>>, elementsType |-> "array", extract_elements |-> ConcBoxes],
   [pdf_url |-> <<"u">>, elementsType |-> "undefined", extract_elements |-> <<>>]}

InitConc ==
  /\ \E req1, req2 \in ConcRequests :
       h = [r \in Requests |-> IF r = 1 THEN HStart(req1) ELSE HStart(req2)]
  /\ fin = <<>>
  /\ fout = <<>>
  /\ fpc = "idle"

SpecConc == InitConc /\ [][Next]_vars

\* C12: within one /process run the ids of the emitted regions, in emission
\* order, are exactly 1, 2, ..., n, across all merged fragments and both
\* indicator kinds, and the numbering starts again at 1 on every request.
C12_IdsCountFromOne ==
  \A r \in Requests :
    \A k \in 1..Len(h[r].fillableAreas) : h[r].fillableAreas[k].id = k

\* request 1 is over; request 2 has numbered a glyph match and a blank of
\* its first fragment and a glyph match of its second, from 1 again
C12_Witness ==
  /\ h[1].pc = "done" /\ h[1].res.status = 200
  /\ Len(h[1].fillableAreas) = 3
  /\ h[2].pc = "await_fetch"
  /\ Len(h[2].fillableAreas) = 3
  /\ h[2].fillableAreas[1].id = 1
  /\ h[2].fillableAreas[1].field_type = "checkbox"
  /\ h[2].fillableAreas[2].field_type \notin {"checkbox", "radio"}
  /\ h[2].fillableAreas[2].frag = 1
  /\ h[2].fillableAreas[3].frag = 2

\* what a request with these areas has, run alone on a document, after its
\* loop has gone through the first n areas
Placeable(area, pages, blocked) ==
  HasPage(pages, area.page) /\ area.id \notin blocked

RECURSIVE AloneCreated(_, _, _, _)
AloneCreated(areas, pages, blocked, n) ==
  IF n = 0 THEN <<>>
  ELSE LET before == AloneCreated(areas, pages, blocked, n - 1)
           area == areas[n]
       IN IF Placeable(area, pages, blocked)
          THEN Append(before, CreatedField(area, SafeRect(area, pages[area.page + 1])))
          ELSE before

RECURSIVE AloneErrors(_, _, _, _)
AloneErrors(areas, pages, blocked, n) ==
  IF n = 0 THEN <<>>
  ELSE LET before == AloneErrors(areas, pages, blocked, n - 1)
           area == areas[n]
       IN IF Placeable(area, pages, blocked)
          THEN before
          ELSE Append(before, [name |-> area.field_name,
                               message |-> IF ~HasPage(pages, area.page)
                                           THEN "Page not found" ELSE "field exists"])

\* C18: two /process requests interleaving at their await points do not
\* influence each other: in every reachable state each request's regions
\* (ids from 1, names, types, coordinates), counters, recorded fields and
\* errors and its response are those of its own elements and its own
\* document, as in a run alone.
C18_NoInterference ==
  \A r \in Requests :
    LET st == h[r]
        areas == DetectAreas(st.req.extract_elements)
        n == st.next - 1
        created == AloneCreated(areas, st.pages, st.blocked, n)
        errors == AloneErrors(areas, st.pages, st.blocked, n)
    IN /\ Detected(r) =>
            /\ st.mergedElements = mergeMultilineElements(st.req.extract_elements)
            /\ st.fillableAreas = areas
       /\ st.pc \in {"placing", "await_save"} =>
            /\ n <= Len(areas)
            /\ st.createdFields = created
            /\ st.errors = errors
            /\ st.successCount = Len(created)
            /\ st.errorCount = Len(errors)
       /\ st.pc = "done" /\ st.res.status = 200 /\ Len(areas) > 0 =>
            st.res = ResponseOk([fillableAreas |-> areas,
                                 successCount |-> Len(created),
                                 errorCount |-> Len(errors),
                                 createdFields |-> created,
                                 errors |-> errors])

\* both requests are in their loops over the same three regions, on
\* different documents, one with a failure and the other without
C18_Witness ==
  /\ h[1].pc = "placing" /\ h[2].pc = "placing"
  /\ h[1].req = h[2].req
  /\ Len(h[1].fillableAreas) = 3
  /\ h[1].next = 3 /\ h[2].next = 4
  /\ h[1].successCount = 1 /\ h[1].errorCount = 1
  /\ h[2].successCount = 3 /\ h[2].errorCount = 0

-----------------------------------------------------------------------------
(* Claims about the error handling of one /process request (specification   *)
(* Spec)                                                                    *)

\* the names recorded in a list of created fields or of errors
NamesOf(list) == {list[k].name : k \in 1..Len(list)}

\* the index of the area of this name
AreaIndex(areas, name) == CHOOSE k \in 1..Len(areas) : areas[k].field_name = name

\* C13: a failure while placing one region never aborts the batch: the
\* regions are attempted in order, each attempted region is recorded either
\* in createdFields or in errors, the loop is left only after the last
\* region, and then successCount + errorCount is the number of detected
\* regions and createdFields has successCount entries.
C13_BatchNeverAborts ==
  \A r \in Requests :
    LET st == h[r]
        areas == st.fillableAreas
        tried == st.next - 1
    IN st.pages # <<>> =>
         /\ tried <= Len(areas)
         /\ st.successCount + st.errorCount = tried
         /\ Len(st.createdFields) = st.successCount
         /\ Len(st.errors) = st.errorCount
         /\ \A k \in 1..tried :
              (areas[k].field_name \in NamesOf(st.createdFields))
                # (areas[k].field_name \in NamesOf(st.errors))
         /\ \A k \in 1..(Len(st.createdFields) - 1) :
              st.createdFields[k].id < st.createdFields[k + 1].id
         /\ \A k \in 1..(Len(st.errors) - 1) :
              AreaIndex(areas, st.errors[k].name) < AreaIndex(areas, st.errors[k + 1].name)
         /\ st.pc # "placing" => tried = Len(areas)
         /\ st.pc = "done" /\ st.res.status = 200 =>
              /\ st.res.statistics.detected_areas = Len(areas)
              /\ st.res.statistics.created_fields + st.res.statistics.errors = Len(areas)
              /\ Len(st.res.fields) = st.res.statistics.created_fields

\* the second of at least three regions failed, the regions after it were
\* placed, and the response reports both counts
C13_Witness ==
  /\ h[1].pc = "done" /\ h[1].res.status = 200
  /\ Len(h[1].fillableAreas) >= 3
  /\ h[1].errorCount = 1
  /\ h[1].errors[1].name = h[1].fillableAreas[2].field_name
  /\ h[1].successCount = Len(h[1].fillableAreas) - 1
  /\ h[1].createdFields[h[1].successCount].id = Len(h[1].fillableAreas)
  /\ h[1].res.statistics.errors = 1

\* the request lacks pdf_url, or its extract_elements is missing or no array
InvalidRequest(req) == req.pdf_url = <<>> \/ req.elementsType # "array"

\* C14: a request whose pdf_url is missing, or whose extract_elements is
\* missing or not an array, is answered with status 400 at once: it never
\* waits at an await, nothing is merged, detected, fetched or created for
\* it, and its response holds an error and neither fields nor a document.
C14_InvalidRejectedAtOnce ==
  \A r \in Requests :
    h[r].pc # "absent" /\ InvalidRequest(h[r].req) =>
      /\ h[r].pc \in {"start", "done"}
      /\ h[r].mergedElements = <<>>
      /\ h[r].fillableAreas = <<>>
      /\ h[r].fetchCalls = 0
      /\ h[r].widgets = <<>>
      /\ h[r].createdFields = <<>>
      /\ h[r].pc = "done" =>
           /\ h[r].res.status = 400
           /\ DOMAIN h[r].res = {"status", "error"}

\* the request holds an element in which detection would find a region,
\* and is rejected for its missing pdf_url
C14_Witness ==
  /\ h[1].pc = "done"
  /\ h[1].req.pdf_url = <<>>
  /\ DetectAreas(h[1].req.extract_elements) # <<>>
  /\ h[1].res = Response400("pdf_url is required")
  /\ h[1].fetchCalls = 0

\* C15: when the fetch of the document fails (it rejects, or the response
\* is not ok) the request ends with status 500 and success = false, and the
\* response carries no pdf_base64 and no fields, however many regions were
\* detected.
C15_FetchFailureIs500 ==
  [][\A r \in Requests :
       h[r].pc = "await_fetch" /\ h'[r].pc = "done" =>
         /\ h'[r].res.status = 500
         /\ h'[r].res.success = FALSE
         /\ "pdf_base64" \notin DOMAIN h'[r].res
         /\ "fields" \notin DOMAIN h'[r].res]_vars

\* twelve regions were detected and the response of the fetch was not ok
C15_Witness ==
  /\ h[1].pc = "done"
  /\ Len(h[1].fillableAreas) = 12
  /\ h[1].fetchCalls = 1
  /\ h[1].res.status = 500
  /\ h[1].res.error = "Failed to download PDF"

-----------------------------------------------------------------------------
(* Specification SpecClamp: the clamping of the materialization loop on     *)
(* areas of every position and size around small pages                      *)

\* x, y, width and height of an area, in units
ClampCoords == {-5, 0, 4, 9, 11, 20}

\* page.getWidth() and page.getHeight(), in units
ClampPageWidths == {8, 10, 15}
ClampPageHeights == {3, 5, 8}

InitClamp ==
  /\ h = HIdle
  /\ fin \in {[area |-> [x |-> x * Scale, y |-> y * Scale,
                          width |-> w * Scale, height |-> ht * Scale],
               page |-> [width |-> pw, height |-> ph]] :
                x \in ClampCoords, y \in ClampCoords, w \in ClampCoords, ht \in ClampCoords,
                pw \in ClampPageWidths, ph \in ClampPageHeights}
  /\ fout = <<>>
  /\ fpc = "call"

\* let safeX = ..., safeY = ..., safeWidth = ..., safeHeight = ...
CallSafeRect ==
  /\ fpc = "call"
  /\ fout' = SafeRect(fin.area, fin.page)
  /\ fpc' = "ret"
  /\ UNCHANGED <<h, fin>>

NextClamp == CallSafeRect

SpecClamp == InitClamp /\ [][NextClamp]_vars

\* C16: on a page of width >= 10 and height >= 5 the clamped rectangle lies
\* within the page: 0 <= safeX, safeX + safeWidth <= pageWidth, 0 <= safeY,
\* safeY + safeHeight <= pageHeight, safeWidth > 0 and safeHeight > 0.
C16_ClampedWithinPage ==
  fpc = "ret" /\ fin.page.width >= 10 /\ fin.page.height >= 5 =>
    /\ 0 <= fout.x
    /\ fout.x + fout.width <= fin.page.width * Scale
    /\ 0 <= fout.y
    /\ fout.y + fout.height <= fin.page.height * Scale
    /\ fout.width > 0
    /\ fout.height > 0

\* an area right of and above a 15 x 8 page, larger than the page: it is
\* moved in and cut to the page's edges
C16_Witness ==
  /\ fpc = "ret"
  /\ fin.page = [width |-> 15, height |-> 8]
  /\ fin.area = [x |-> 20 * Scale, y |-> 20 * Scale, width |-> 20 * Scale, height |-> 20 * Scale]
  /\ fout = [x |-> 5 * Scale, y |-> 3 * Scale, width |-> 10 * Scale, height |-> 5 * Scale]

-----------------------------------------------------------------------------
(* Claims about guessFieldType against a keyword table (specification       *)
(* SpecClassify)                                                            *)

\* the ordered keyword table: the first row with a keyword in combined wins
KeywordTable ==
  <<[type |-> "signature",
     keywords |-> {<<"s", "i", "g", "n">>, <<"s", "i", "g", "n", "a", "t", "u", "r", "e">>,
                   <<"s", "i", "g", "n", "e", "d", " ", "b", "y">>,
                   <<"i", "n", "i", "t", "i", "a", "l">>}],
    [type |-> "currency",
     keywords |-> {<<"$">>, <<"a", "m", "o", "u", "n", "t">>, <<"s", "u", "m", " ", "o", "f">>,
                   <<"p", "r", "i", "c", "e">>, <<"d", "e", "p", "o", "s", "i", "t">>,
                   <<"e", "a", "r", "n", "e", "s", "t", " ", "m", "o", "n", "e", "y">>}],
    [type |-> "date",
     keywords |-> {<<"d", "a", "t", "e">>, <<"d", "a", "y">>, <<"m", "o", "n", "t", "h">>,
                   <<"y", "e", "a", "r">>}],
    [type |-> "name", keywords |-> {<<"n", "a", "m", "e">>}],
    [type |-> "address", keywords |-> {<<"a", "d", "d", "r", "e", "s", "s">>}],
    [type |-> "phone", keywords |-> {<<"p", "h", "o", "n", "e">>, <<"t", "e", "l">>}],
    [type |-> "email", keywords |-> {<<"e", "m", "a", "i", "l">>, <<"e", "-", "m", "a", "i", "l">>}]>>

RowMatches(row, combined) == \E keyword \in row.keywords : Includes(combined, keyword)

TableType(combined) ==
  IF \E k \in 1..Len(KeywordTable) : RowMatches(KeywordTable[k], combined)
  THEN KeywordTable[CHOOSE k \in 1..Len(KeywordTable) :
                      /\ RowMatches(KeywordTable[k], combined)
                      /\ \A j \in 1..(k - 1) : ~RowMatches(KeywordTable[j], combined)].type
  ELSE "text"

\* C17: for every combined text guessFieldType returns the type of the
\* ordered keyword table, first match wins, case-insensitively: signature
\* for "sign", "signature", "signed by", "initial"; else currency for "$",
\* "amount", "sum of", "price", "deposit", "earnest money"; else date for
\* "date", "day", "month", "year"; else name, address, phone, email in that
\* order; else text.
C17_MatchesKeywordTable ==
  fpc = "ret" => fout = TableType(SearchedText)

-----------------------------------------------------------------------------
(* Claims about which fragments mergeMultilineElements joins (specification *)
(* SpecMerge)                                                               *)

\* the element has a text with an underscore or a glyph character
HasIndicator(element) ==
  ~NoText(element) /\ (hasUnderscore(element) \/ hasCheckbox(element))

\* the element has a text
HasText(element) == element.TextType = "string" /\ element.Text # <<>>

\* vertically close and horizontally adjacent, by the thresholds of src/index.js
CloseAndAdjacent(prevBounds, currBounds) ==
  /\ Abs(currBounds[2] - prevBounds[2]) < 30
  /\ currBounds[1] - prevBounds[3] >= -10
  /\ currBounds[1] - prevBounds[3] < 150

\* the input elements i and j are part of the same merged fragment
MergedTogether(i, j) ==
  \E k \in 1..Len(fout) : i \in Range(fout[k].src) /\ j \in Range(fout[k].src)

\* the original statement of C19: two consecutive fragments with a text, on
\* the same page, vertically close and horizontally adjacent, of which at
\* least one contains an indicator, are merged together.
C19_JoinsWhenOneHasIndicator ==
  fpc = "ret" =>
    \A i \in 1..(Len(fin) - 1) :
      (/\ HasText(fin[i]) /\ HasText(fin[i + 1])
       /\ fin[i].Page = fin[i + 1].Page
       /\ CloseAndAdjacent(fin[i].Bounds, fin[i + 1].Bounds)
       /\ HasIndicator(fin[i]) \/ HasIndicator(fin[i + 1]))
      => MergedTogether(i, i + 1)

\* the merged fragment open after the elements 1..i, whose last is a candidate
OpenAfter(i) ==
  LET merged == mergeMultilineElements(SubSeq(fin, 1, i)) IN merged[Len(merged)]

\* C19: a fragment is joined to the one before it exactly when both contain
\* an indicator, it is on the page of the merged fragment open before it,
\* and it is vertically close and horizontally adjacent to the bounds that
\* merged fragment has so far.  A label without indicator is never joined:
\* the indicator fragment after it begins a merged fragment of its own.
C19_JoinsWhenBothHaveIndicator ==
  fpc = "ret" =>
    \A i \in 1..(Len(fin) - 1) :
      /\ MergedTogether(i, i + 1) <=>
           /\ HasIndicator(fin[i]) /\ HasIndicator(fin[i + 1])
           /\ fin[i + 1].Page = OpenAfter(i).Page
           /\ CloseAndAdjacent(OpenAfter(i).Bounds, fin[i + 1].Bounds)
      /\ ~HasIndicator(fin[i]) /\ HasIndicator(fin[i + 1]) =>
           \E k \in 1..Len(fout) : fout[k].src[1] = i + 1

\* a label is followed by a blank that is close and adjacent to it, and
\* that blank by a second one: the label is dropped and the two blanks are
\* joined
C19_Witness ==
  /\ fpc = "ret"
  /\ Len(fin) = 3
  /\ HasText(fin[1]) /\ ~HasIndicator(fin[1])
  /\ fin[1].Page = fin[2].Page
  /\ CloseAndAdjacent(fin[1].Bounds, fin[2].Bounds)
  /\ Len(fout) = 1
  /\ fout[1].src = <<2, 3>>

\* C20: an element whose text is empty, is no string, or has neither an
\* underscore nor a glyph character is part of no merged fragment, and
\* closes the open accumulator: two candidates with such an element between
\* them are never merged together, however close their bounds are.
C20_NonCandidateClosesAccumulator ==
  fpc \in {"ret", "ret_v231"} =>
    /\ \A k \in 1..Len(fout) : \A j \in Range(fout[k].src) : HasIndicator(fin[j])
    /\ \A i, j \in 1..Len(fin) :
         (i < j /\ \E m \in (i + 1)..(j - 1) : ~HasIndicator(fin[m]))
         => ~MergedTogether(i, j)

\* a prose element stands between two candidates whose bounds allow a merge:
\* the output is the two candidates, each on its own
C20_Witness ==
  /\ fpc \in {"ret", "ret_v231"}
  /\ Len(fin) = 3
  /\ HasIndicator(fin[1]) /\ HasIndicator(fin[3])
  /\ HasText(fin[2]) /\ ~HasIndicator(fin[2])
  /\ fin[1].Page = fin[3].Page
  /\ CloseAndAdjacent(fin[1].Bounds, fin[3].Bounds)
  /\ Len(fout) = 2
  /\ fout[1].src = <<1>> /\ fout[2].src = <<3>>

\* the texts of the input elements src[1..n], joined as the merge joins them
RECURSIVE JoinedText(_, _)
JoinedText(src, n) ==
  IF n = 1 THEN fin[src[1]].Text
  ELSE AppendText(JoinedText(src, n - 1), fin[src[n]].Text)

\* C21: mergeMultilineElements loses and duplicates nothing: each candidate
\* contributes its text to exactly one merged fragment, each merged fragment
\* is a run of candidates consecutive in input order, the merged fragments
\* come in the order of their first constituent, and the accumulator open at
\* the end of the input is emitted.
C21_NothingLostOrDuplicated ==
  fpc \in {"ret", "ret_v231"} =>
    /\ \A j \in 1..Len(fin) :
         HasIndicator(fin[j]) =>
           Cardinality({k \in 1..Len(fout) : j \in Range(fout[k].src)}) = 1
    /\ \A k \in 1..Len(fout) :
         /\ Len(fout[k].src) >= 1
         /\ \A m \in 1..(Len(fout[k].src) - 1) : fout[k].src[m + 1] = fout[k].src[m] + 1
         /\ fout[k].Text = JoinedText(fout[k].src, Len(fout[k].src))
    /\ \A k \in 1..(Len(fout) - 1) : fout[k].src[1] < fout[k + 1].src[1]

\* two candidates were joined and a third, too far from them, was left in
\* the accumulator at the end of the input: both fragments are returned
C21_Witness ==
  /\ fpc \in {"ret", "ret_v231"}
  /\ Len(fin) = 3
  /\ \A j \in 1..3 : HasIndicator(fin[j])
  /\ fin[1].Page = fin[3].Page
  /\ fin[1].Text # fin[2].Text
  /\ Len(fout) = 2
  /\ fout[1].src = <<1, 2>>
  /\ fout[2].src = <<3>>
  /\ fout[2].Text = fin[3].Text

-----------------------------------------------------------------------------
(* Further claims about findUnderscoreSegments (specification SpecSeg)      *)

\* C22: the range [startIndex, endIndex] of every segment
\* findUnderscoreSegments emits begins and ends on an underscore and holds
\* only underscores and isolated single spaces: never a letter, digit or
\* punctuation mark, never two adjacent spaces.
C22_OnlyUnderscoresAndSingleSpaces ==
  fpc = "ret" =>
    \A k \in 1..Len(fout) :
      /\ CharAt(fin, fout[k].startIndex) = "_"
      /\ CharAt(fin, fout[k].endIndex) = "_"
      /\ \A i \in fout[k].startIndex..fout[k].endIndex :
           /\ CharAt(fin, i) \in {"_", " "}
           /\ CharAt(fin, i) = " " /\ i < fout[k].endIndex => CharAt(fin, i + 1) # " "

-----------------------------------------------------------------------------
(* Specification SpecDetect: one iteration of the detection loop, on one    *)
(* merged fragment: its glyph matches and underscore segments become areas  *)

MaxDetLen == 4

DetAlphabet == {"_", " ", "[", "]", "a"}

\* Bounds[0] of the fragment, in units
DetStarts == {-6, 0, 100}

\* Courier 10 advances a letter by 6 units; no Font and no TextSize is Arial 12
DetFonts == {Font(<<"C", "o", "u", "r", "i", "e", "r">>, 10), NoFont}

InitDetect ==
  /\ h = HIdle
  /\ fin \in {TextElem(text, <<x, 700, x + 50, 715>>, 0, font, 0) :
                text \in TextsUpTo(DetAlphabet, MaxDetLen), x \in DetStarts, font \in DetFonts}
  /\ fout = <<>>
  /\ fpc = "call"

\* the body of for (const element of mergedElements), with fieldIndex = 1
CallElementAreas ==
  /\ fpc = "call"
  /\ fout' = ElementAreas(fin, 1, 1)
  /\ fpc' = "ret"
  /\ UNCHANGED <<h, fin>>

NextDetect == CallElementAreas

SpecDetect == InitDetect /\ [][NextDetect]_vars

\* C23: the regions emitted for one merged fragment are in offset order,
\* glyph matches and underscore segments taken together: regions with
\* increasing id have non-decreasing offsets in the fragment's text.
C23_RegionsInOffsetOrder ==
  fpc = "ret" =>
    \A i, j \in 1..Len(fout) :
      fout[i].id < fout[j].id => fout[i].offset <= fout[j].offset

\* C25: for every merged fragment, whatever its Bounds[0], and every
\* underscore segment or glyph match in it, the x of the emitted region is
\* positions[startOffset], the positioner's x of the indicator's first
\* character.
C25_XIsPositionOfFirstCharacter ==
  fpc = "ret" =>
    \A k \in 1..Len(fout) :
      fout[k].x = calculateCharacterPositions(fin.Text, fin.Bounds[1] * Scale,
                                              FontNameOf(fin), FontSizeOf(fin))[fout[k].offset + 1]

-----------------------------------------------------------------------------
(* Specification SpecContext: getContext on texts that hold one underscore  *)
(* segment with fewer, as many and more characters than the window on       *)
(* either side                                                              *)

\* numbers of characters before and after the segment
ContextLens == {0, 1, 99, 100, 101}

\* n characters of prose; when spaced, the first and the last are spaces
Filler(n, spaced) ==
  [i \in 1..n |-> IF spaced /\ i \in {1, n} THEN " "
                  ELSE IF i % 3 = 0 THEN "x" ELSE IF i % 3 = 1 THEN "y" ELSE "z"]

InitContext ==
  /\ h = HIdle
  /\ fin \in {[text |-> Filler(p, sp) \o [i \in 1..n |-> "_"] \o Filler(q, sq),
               startIndex |-> p, endIndex |-> p + n - 1] :
                p \in ContextLens, q \in ContextLens, n \in 2..3,
                sp \in BOOLEAN, sq \in BOOLEAN}
  /\ fout = <<>>
  /\ fpc = "call"

\* const context = getContext(text, segment.startIndex, segment.endIndex)
CallGetContext ==
  /\ fpc = "call"
  /\ fout' = getContext(fin.text, fin.startIndex, fin.endIndex)
  /\ fpc' = "ret"
  /\ UNCHANGED <<h, fin>>

NextContext == CallGetContext

SpecContext == InitContext /\ [][NextContext]_vars

\* C24: with the window N = 100, before is the trimmed string of the up to N
\* characters that precede startIndex and after is the trimmed string of the
\* up to N characters that follow endIndex, the same window on both sides;
\* neither holds a character of the segment.
C24_SameWindowBothSides ==
  fpc = "ret" =>
    /\ fout.before =
         Trim(Substring(fin.text, Max(0, fin.startIndex - ContextWindow), fin.startIndex))
    /\ fout.after =
         Trim(Substring(fin.text, fin.endIndex + 1,
                        Min(Len(fin.text), fin.endIndex + 1 + ContextWindow)))
    /\ ~Includes(fout.before, <<"_">>)
    /\ ~Includes(fout.after, <<"_">>)

-----------------------------------------------------------------------------
(* Specification SpecFrame: mergeMultilineElements of src/index.js on the   *)
(* lists of SpecMerge, keeping the caller's list as the call leaves it      *)

\* const mergedElements = mergeMultilineElements(extract_elements)
CallMergeKeepingInput ==
  /\ fpc = "call"
  /\ fout' = [merged |-> mergeMultilineElementsRun(fin).merged,
              elements |-> mergeMultilineElementsRun(fin).elements]
  /\ fpc' = "ret"
  /\ UNCHANGED <<h, fin>>

NextFrame == CallMergeKeepingInput

SpecFrame == InitMerge /\ [][NextFrame]_vars

\* C26: mergeMultilineElements leaves its input unchanged: after the call
\* every input element has the Text, Bounds, Page, Font and TextSize it had
\* before, also the elements merged into an accumulator that grew.
C26_InputUnchanged ==
  fpc = "ret" => fout.elements = fin

\* the first element opened an accumulator whose text and bounds grew by a
\* second one, and still has its own text and bounds
C26_Witness ==
  /\ fpc = "ret"
  /\ Len(fin) = 2
  /\ Len(fout.merged) = 1
  /\ fout.merged[1].src = <<1, 2>>
  /\ fout.merged[1].Bounds # fin[1].Bounds
  /\ fout.merged[1].Text # fin[1].Text
  /\ fout.elements[1].Bounds = fin[1].Bounds
  /\ fout.elements[1].Text = fin[1].Text

-----------------------------------------------------------------------------
(* Specification SpecStats: one /process request whose blanks have labels   *)
(* of the types at the end of the classifier's chain                        *)

StatsPool ==
  { TextElem(<<"T", "e", "l", " ", "_", "_">>, <<100, 700, 150, 712>>, 0, NoFont, 0),
    TextElem(<<"e", "m", "a", "i", "l", " ", "_", "_">>, <<100, 600, 150, 612>>, 0, NoFont, 0),
    TextElem(<<"a", "d", "d", "r", "e", "s", "s", " ", "_", "_">>, <<100, 500, 150, 512>>, 0, NoFont, 0),
    TextElem(<<"[", "]", " ", "_", "_">>, <<100, 400, 150, 412>>, 0, NoFont, 0) }

StatsRequests ==
  {[pdf_url |-> <<"u">>, elementsType |-> "array", extract_elements |-> elements] :
     elements \in UNION {[1..k -> StatsPool] : k \in 0..2}}
  \cup {[pdf_url |-> <<>>, elementsType |-> "array", extract_elements |-> <<>>],
        [pdf_url |-> <<"u">>, elementsType |-> "object", extract_elements |-> <<>>]}

InitStats ==
  /\ \E req \in StatsRequests : h = [HIdle EXCEPT ![1] = HStart(req)]
  /\ fin = <<>>
  /\ fout = <<>>
  /\ fpc = "idle"

SpecStats == InitStats /\ [][Next]_vars

\* C27: in the success response the per-type statistics account for every
\* created field: text + signature + currency + date + name + checkboxes +
\* radio_buttons equals created_fields.
C27_StatisticsAddUp ==
  \A r \in Requests :
    h[r].pc = "done" /\ h[r].res.status = 200 /\ Len(h[r].fillableAreas) > 0 =>
      LET stats == h[r].res.statistics
      IN stats.text + stats.signature + stats.currency + stats.date + stats.name
           + stats.checkboxes + stats.radio_buttons = stats.created_fields

-----------------------------------------------------------------------------
(* findUnderscoreSegments of version 2.0.0 (src/unnamed/part_001), and      *)
(* specification SpecSeg200: that function with its default minLength 3    *)
(* on every text of at most MaxSeg200Len characters                         *)

Seg200Init ==
  [segments |-> <<>>, inUnderscore |-> FALSE, startIndex |-> 0,
   consecutiveNonUnderscore |-> 0]

\* the segment pushed when a run is closed at offset i (text.length at the end)
Seg200Segment(st, i) ==
  [startIndex |-> st.startIndex,
   endIndex |-> i - st.consecutiveNonUnderscore - 1,
   length |-> i - st.consecutiveNonUnderscore - st.startIndex,
   type |-> "text"]

\* one iteration of the loop, at offset i
Seg200Step(text, minLength, st, i) ==
  IF CharAt(text, i) = "_"
  THEN [st EXCEPT !.inUnderscore = TRUE,
                  !.startIndex = IF st.inUnderscore THEN st.startIndex ELSE i,
                  !.consecutiveNonUnderscore = 0]
  ELSE LET st1 == [st EXCEPT !.consecutiveNonUnderscore = st.consecutiveNonUnderscore + 1]
       IN IF st1.inUnderscore /\ st1.consecutiveNonUnderscore >= 3
          THEN [st1 EXCEPT !.inUnderscore = FALSE,
                           !.segments = IF Seg200Segment(st1, i).length >= minLength
                                        THEN Append(st1.segments, Seg200Segment(st1, i))
                                        ELSE st1.segments]
          ELSE st1

RECURSIVE Seg200Loop(_, _, _, _)
Seg200Loop(text, minLength, st, i) ==
  IF i < Len(text)
  THEN Seg200Loop(text, minLength, Seg200Step(text, minLength, st, i), i + 1)
  ELSE st

findUnderscoreSegments_v200(text, minLength) ==
  LET st == Seg200Loop(text, minLength, Seg200Init, 0)
  IN IF st.inUnderscore /\ Seg200Segment(st, Len(text)).length >= minLength
     THEN Append(st.segments, Seg200Segment(st, Len(text)))
     ELSE st.segments

MaxSeg200Len == 6

Seg200Alphabet == {"_", "a", " "}

InitSeg200 ==
  /\ h = HIdle
  /\ fin \in TextsUpTo(Seg200Alphabet, MaxSeg200Len)
  /\ fout = <<>>
  /\ fpc = "call"

\* findUnderscoreSegments(text), minLength = 3
CallFindUnderscoreSegments_v200 ==
  /\ fpc = "call"
  /\ fout' = findUnderscoreSegments_v200(fin, 3)
  /\ fpc' = "ret"
  /\ UNCHANGED <<h, fin>>

NextSeg200 == CallFindUnderscoreSegments_v200

SpecSeg200 == InitSeg200 /\ [][NextSeg200]_vars

\* the offsets s..e are a maximal run of underscores of text
MaximalRun(text, s, e) ==
  /\ 0 <= s /\ s <= e /\ e < Len(text)
  /\ \A i \in s..e : CharAt(text, i) = "_"
  /\ CharAt(text, s - 1) # "_"
  /\ CharAt(text, e + 1) # "_"

\* C28: in version 2.0.0, with minLength 3, every maximal run of n >= 3
\* underscores is reported by a segment that starts at the run's first
\* underscore; its endIndex is the index of the run's last underscore and its
\* length is n, whether the run is followed by other characters or ended by
\* the end of the text.
C28_RunsReportedWithTheirLength ==
  fpc = "ret" =>
    \A s, e \in 0..(Len(fin) - 1) :
      MaximalRun(fin, s, e) /\ e - s + 1 >= 3 =>
        \E k \in 1..Len(fout) :
          /\ fout[k].startIndex = s
          /\ fout[k].endIndex = e
          /\ fout[k].length = e - s + 1

====
